---- MODULE Spec2Model ----
(***************************************************************************)
(* Model of the provider bond-and-mod registration handler                 *)
(* (POST /api/bond-mod-provider, provider-core/admin_api.py).              *)
(*                                                                         *)
(* Strings are sequences of lexemes (one-element strings such as "7", " ", *)
(* or whole words such as "expected"), so that strip(), isdigit(),         *)
(* startswith(), substring search and the regular expression               *)
(* expected\s+(\d+) are computed, not assumed.  A JSON document is the      *)
(* value json.loads() yields for it, tagged with its Python type; text     *)
(* that is not JSON is the value NotJson.  A command line is the argv      *)
(* list the handler builds.  The external chain client (run_list) is the   *)
(* environment: every call yields one of a small set of outcomes.          *)
(***************************************************************************)
EXTENDS Integers, Sequences, FiniteSets, TLC

(***************************************************************************)
(* Bounds                                                                  *)
(***************************************************************************)
MaxReqs == 2

Reqs == 1..MaxReqs

(***************************************************************************)
(* Strings                                                                 *)
(***************************************************************************)
Digits == {"0", "4", "2", "7"}
Whitespace == {" ", "\n"}

S(w) == <<w>>

RECURSIVE LStrip(_)
LStrip(s) == IF s # <<>> /\ Head(s) \in Whitespace THEN LStrip(Tail(s)) ELSE s

RECURSIVE RStrip(_)
RStrip(s) ==
  IF s # <<>> /\ s[Len(s)] \in Whitespace THEN RStrip(SubSeq(s, 1, Len(s) - 1)) ELSE s

Strip(s) == RStrip(LStrip(s))

IsDigit(s) == s # <<>> /\ \A i \in 1..Len(s) : s[i] \in Digits

Contains(s, w) == \E i \in 1..Len(s) : s[i] = w

StartsWith(s, w) == s # <<>> /\ s[1] = w

Remove(s, w) == SelectSeq(s, LAMBDA c : c # w)

\* list.index(x): position of the first element equal to x, 0 when absent
Index(l, x) ==
  IF \E i \in 1..Len(l) : l[i] = x
  THEN CHOOSE i \in 1..Len(l) : l[i] = x /\ \A j \in 1..(i - 1) : l[j] # x
  ELSE 0

(***************************************************************************)
(* JSON values as json.loads() returns them                                *)
(***************************************************************************)
NotJson == [t |-> "text"]
JNull == [t |-> "null"]
JStr(s) == [t |-> "str", s |-> s]
JNum(s) == [t |-> "num", s |-> s]
JList(l) == [t |-> "list", l |-> l]
JObj(f) == [t |-> "dict", f |-> f]
NoFields == [k \in {} |-> JNull]

IsDict(v) == v.t = "dict"
IsList(v) == v.t = "list"

\* Python truthiness of a JSON value
Truthy(v) ==
  CASE v.t = "null" -> FALSE
    [] v.t = "str" -> v.s # <<>>
    [] v.t = "num" -> v.s # <<"0">>
    [] v.t = "list" -> v.l # <<>>
    [] v.t = "dict" -> DOMAIN v.f # {}
    [] OTHER -> TRUE

\* dict.get(k): None when the key is absent
Get(d, k) == IF k \in DOMAIN d.f THEN d.f[k] ELSE JNull

\* a or b
Or(a, b) == IF Truthy(a) THEN a ELSE b

\* str(v) for the scalar values; other values never print as digits
Str(v) ==
  CASE v.t = "str" -> v.s
    [] v.t = "num" -> v.s
    [] v.t = "null" -> <<"None">>
    [] OTHER -> <<"{..}">>

(***************************************************************************)
(* Outcome of run_list(cmd): the exit code and output of the command, or   *)
(* an exception other than CalledProcessError (OSError, decode error)      *)
(***************************************************************************)
Exit(c, o) == [exc |-> FALSE, code |-> c, out |-> o]
Raised == [exc |-> TRUE, code |-> 1, out |-> NotJson]

\* what a Python expression evaluates to: a value, or an uncaught exception
Ret(v) == [raised |-> FALSE, val |-> v]
Throw == [raised |-> TRUE, val |-> JNull]

(***************************************************************************)
(* Configuration (module-level values of admin_api.py, at their defaults)  *)
(***************************************************************************)
ARKEOD_HOME == S("/root/.arkeod")
KEY_NAME == S("provider")
KEYRING == S("test")
ARKEOD_NODE == S("tcp://provider1.innovationtheory.com:26657")
CHAIN_ID == <<>>
NODE_ARGS == IF ARKEOD_NODE # <<>> THEN <<S("--node"), ARKEOD_NODE>> ELSE <<>>
CHAIN_ARGS == IF CHAIN_ID # <<>> THEN <<S("--chain-id"), CHAIN_ID>> ELSE <<>>
SENTINEL_URI_DEFAULT == S("http://127.0.0.1:3636/metadata.json")
METADATA_NONCE_DEFAULT == S("1")
BOND_DEFAULT == S("1")
FEES_DEFAULT == S("200uarkeo")

(***************************************************************************)
(* Service-name resolution                                                 *)
(***************************************************************************)
\* the list the catalog scan iterates over
CatalogServices(data) ==
  LET top == Or(Or(Get(data, "services"), Get(data, "service")),
                Or(Get(data, "result"), JList(<<>>)))
      services == IF IsDict(top)
                  THEN Or(Or(Get(top, "services"), Get(top, "service")), JList(<<>>))
                  ELSE top
  IN IF IsList(services) THEN services.l ELSE <<>>

ItemId(item) ==
  Str(Or(Or(Get(item, "id"), Get(item, "service_id")),
         Or(Get(item, "serviceID"), JStr(<<>>))))

ItemMatches(item, sid) == IsDict(item) /\ ItemId(item) = sid

\* _lookup_service_name_by_id(sid), given the outcome of the all-services query
LookupServiceNameById(sid, oc) ==
  IF oc.exc THEN Throw
  ELSE IF oc.code # 0 THEN Ret(JNull)
  ELSE IF oc.out = NotJson THEN Ret(JNull)
  ELSE IF ~IsDict(oc.out) THEN Throw
  ELSE LET items == CatalogServices(oc.out)
           hits == {i \in 1..Len(items) : ItemMatches(items[i], sid)}
       IN IF hits = {} THEN Ret(JNull)
          ELSE LET item == items[CHOOSE i \in hits : \A j \in hits : i <= j]
               IN Ret(Or(Or(Get(item, "service"), Get(item, "name")), JStr(sid)))

(***************************************************************************)
(* Identity resolution (derive_pubkeys)                                    *)
(***************************************************************************)
\* json.loads(pubkey_out).get("key", "").strip(), "" on JSONDecodeError
ParseRawPubkey(out) ==
  IF out = NotJson THEN Ret(<<>>)
  ELSE IF ~IsDict(out) THEN Throw
  ELSE IF "key" \notin DOMAIN out.f THEN Ret(<<>>)
  ELSE IF out.f["key"].t # "str" THEN Throw
  ELSE Ret(Strip(out.f["key"].s))

\* the first line starting with "Bech32 Acc:", prefix removed and stripped
ParseBech32(lines) ==
  LET hits == {i \in 1..Len(lines) : StartsWith(lines[i], "Bech32 Acc:")}
  IN IF hits = {} THEN <<>>
     ELSE Strip(Remove(lines[CHOOSE i \in hits : \A j \in hits : i <= j], "Bech32 Acc:"))

(***************************************************************************)
(* Account sequence                                                        *)
(***************************************************************************)
NoSeq == <<>>

\* the --sequence argument one account query yields ([] when it yields none)
ParseSequence(oc) ==
  IF oc.exc \/ oc.code # 0 \/ oc.out = NotJson THEN NoSeq
  ELSE IF ~IsDict(oc.out) THEN NoSeq
  ELSE LET account_info == Or(Or(Get(oc.out, "account"), Get(oc.out, "result")), JObj(NoFields))
       IN IF ~IsDict(account_info) THEN NoSeq
          ELSE LET val == Or(Get(account_info, "value"), account_info)
               IN IF ~IsDict(val) THEN NoSeq
                  ELSE IF Get(val, "sequence") = JNull THEN NoSeq
                  ELSE <<S("--sequence"), Str(Get(val, "sequence"))>>

(***************************************************************************)
(* Sequence-mismatch detection                                             *)
(***************************************************************************)
MismatchMarker == "account sequence mismatch"

HasMarker(out) == Contains(out, MismatchMarker)

\* end of the longest run of lexemes of class C starting at position i
RECURSIVE RunEnd(_, _, _)
RunEnd(s, i, C) == IF i <= Len(s) /\ s[i] \in C THEN RunEnd(s, i + 1, C) ELSE i

\* re.search(r"expected\s+(\d+)", out): does the pattern match at position i
MatchesAt(s, i) ==
  /\ s[i] = "expected"
  /\ RunEnd(s, i + 1, Whitespace) > i + 1
  /\ RunEnd(s, RunEnd(s, i + 1, Whitespace), Digits) > RunEnd(s, i + 1, Whitespace)

\* group(1) of the match at position i: the digits after the whitespace
GroupAt(s, i) ==
  LET a == RunEnd(s, i + 1, Whitespace)
  IN SubSeq(s, a, RunEnd(s, a, Digits) - 1)

\* retry_seq after the regular-expression step ([] when there is no match)
ExpectedSeq_last(out) ==
  LET hits == {i \in 1..Len(out) : MatchesAt(out, i)}
  IN IF hits = {} THEN NoSeq
     ELSE <<S("--sequence"), GroupAt(out, CHOOSE i \in hits : \A j \in hits : j <= i)>>

ExpectedSeq(out) ==
  LET hits == {i \in 1..Len(out) : MatchesAt(out, i)}
  IN IF hits = {} THEN NoSeq
     ELSE <<S("--sequence"), GroupAt(out, CHOOSE i \in hits : \A j \in hits : i <= j)>>

(***************************************************************************)
(* The environment: what the chain client may answer to each command       *)
(***************************************************************************)
\* request payloads: the "service" field (the other fields take defaults)
Services == {<<>>, <<" ", "7">>, <<"7", "a">>}

\* arkeod query arkeo all-services -o json
CatalogOutcomes ==
  { Raised,
    Exit(1, NotJson),
    Exit(0, NotJson),
    Exit(0, JList(<<>>)),
    Exit(0, JObj([services |-> JList(<<JObj([id |-> JStr(<<"4">>), name |-> JStr(<<"svc">>)])>>)])),
    Exit(0, JObj([result |-> JObj([service |->
               JList(<<JStr(<<"7">>),
                       JObj([service_id |-> JNum(<<"7">>), name |-> JStr(<<"svc">>)])>>)])])) }

\* arkeod keys show <user> -p
KeysShowOutcomes ==
  { Raised,
    Exit(1, NotJson),
    Exit(0, NotJson),
    Exit(0, JList(<<>>)),
    Exit(0, JObj(NoFields)),
    Exit(0, JObj([key |-> JStr(<<" ">>)])),
    Exit(0, JObj([key |-> JStr(<<" ", "pk1", "\n">>)])) }

\* arkeod debug pubkey-raw <raw>: the output as a list of lines
PubkeyRawOutcomes ==
  { Raised,
    Exit(1, <<>>),
    Exit(0, << <<"Address:", " ", "aa">> >>),
    Exit(0, << <<"Bech32 Acc:", " ">>, <<"Bech32 Acc:", " ", "addr1">> >>),
    Exit(0, << <<"Address:", " ", "aa">>, <<"Bech32 Acc:", " ", "addr1">> >>) }

\* arkeod query arkeo provider <pubkey> <service>: exits 0 only for a
\* registered pair; a query may fail whatever the ledger holds
LookupOutcomes(found) ==
  {Raised, Exit(1, NotJson)} \cup (IF found THEN {Exit(0, JObj(NoFields))} ELSE {})

\* arkeod tx arkeo bond-provider ...
BondOutcomes == {Raised, Exit(0, <<"txhash">>), Exit(1, <<"insufficient funds">>)}

AcctValue(v) == JObj([value |-> JObj([sequence |-> v])])

\* arkeod query auth account <pubkey> -o json
AccountOutcomes ==
  { Raised,
    Exit(1, NotJson),
    Exit(0, NotJson),
    Exit(0, JList(<<>>)),
    Exit(0, JObj([result |-> JObj([value |-> JObj(NoFields)])])),
    Exit(0, JObj([account |-> AcctValue(JStr(<<"4">>))])),
    Exit(0, JObj([account |-> JObj([sequence |-> JNum(<<"4", "2">>)])])) }

\* output texts of arkeod tx arkeo mod-provider ...
ModTexts ==
  { <<"code", " ", "0", ",", " ", "expected", " ", "4">>,
    <<MismatchMarker, ",", " ", "expected", " ", "4", "2", ",", " ", "got", " ", "4">>,
    <<MismatchMarker, "expected", "4">>,
    <<"expected", " ", ",", "expected", " ", "\n", "7", MismatchMarker, "expected", " ", "2">> }

ModOutcomes == {Raised} \cup {Exit(c, t) : c \in {0, 1}, t \in ModTexts}

(***************************************************************************)
(* State                                                                   *)
(***************************************************************************)
VARIABLES
  local,       \* local[r]: the local variables of request r's handler
  trace,       \* trace[r]: the external calls and sleeps of request r, in order
  resp,        \* resp[r]: the HTTP response of request r
  registered   \* the ledger: the (pubkey, service) pairs bonded on chain

vars == <<local, trace, resp, registered>>

None == <<>>

Idle ==
  [ pc |-> "idle", service |-> <<>>, resolved_service |-> <<>>, lookup_note |-> <<>>,
    raw_pubkey |-> <<>>, bech32_pubkey |-> <<>>, skip_bond |-> FALSE,
    bond_cmd |-> None, bond_code |-> 0, bond_out |-> <<>>,
    sequence_arg |-> <<>>, i |-> 0, retry_seq |-> <<>>,
    mod_cmd |-> None, mod_code |-> 0, mod_out |-> <<>> ]

NoResp == [http |-> 0]

\* trace entries: a command run with its outcome, an account query with the
\* --sequence argument it yielded, a sleep with its duration
RunEv(verb, cmd, oc) == [k |-> verb, cmd |-> cmd, oc |-> oc]
AcctEv(cmd, seq_arg) == [k |-> "account", cmd |-> cmd, seq |-> seq_arg]
SleepEv(d) == [k |-> "sleep", d |-> d]

\* payload defaults
bond == BOND_DEFAULT
fees == FEES_DEFAULT
sentinel_uri == SENTINEL_URI_DEFAULT
metadata_nonce == METADATA_NONCE_DEFAULT
status == S("1")
min_contract_dur == S("5")
max_contract_dur == S("432000")
subscription_rates == S("200uarkeo")
pay_as_you_go_rates == S("200uarkeo")
settlement_dur == S("1000")

Init ==
  /\ local = [r \in Reqs |-> Idle]
  /\ trace = [r \in Reqs |-> <<>>]
  /\ resp = [r \in Reqs |-> NoResp]
  /\ registered = {}

\* an unhandled exception: the framework answers 500 without a body
Crash == [http |-> 500, body |-> [exception |-> TRUE]]

(***************************************************************************)
(* Command lines                                                           *)
(***************************************************************************)
CatalogCmd ==
  <<S("arkeod"), S("--home"), ARKEOD_HOME>>
    \o (IF ARKEOD_NODE # <<>> THEN <<S("--node"), ARKEOD_NODE>> ELSE <<>>)
    \o <<S("query"), S("arkeo"), S("all-services"), S("-o"), S("json")>>

PubkeyCmd(user, keyring_backend) ==
  <<S("arkeod"), S("--home"), ARKEOD_HOME, S("keys"), S("show"), user, S("-p"),
    S("--keyring-backend"), keyring_backend>>

Bech32Cmd(raw_pubkey) == <<S("arkeod"), S("debug"), S("pubkey-raw"), raw_pubkey>>

LookupCmd(l) ==
  <<S("arkeod"), S("--home"), ARKEOD_HOME, S("query"), S("arkeo"), S("provider"),
    l.bech32_pubkey, l.resolved_service, S("-o"), S("json")>>
    \o (IF ARKEOD_NODE # <<>> THEN <<S("--node"), ARKEOD_NODE>> ELSE <<>>)

BondCmd(l) ==
  <<S("arkeod"), S("--home"), ARKEOD_HOME, S("tx"), S("arkeo"), S("bond-provider"),
    l.bech32_pubkey, l.resolved_service, bond>>
    \o NODE_ARGS \o CHAIN_ARGS
    \o <<S("--from"), KEY_NAME, S("--fees"), fees, S("--keyring-backend"), KEYRING, S("-y")>>

AcctCmd_raw(l) ==
  <<S("arkeod"), S("--home"), ARKEOD_HOME, S("query"), S("auth"), S("account"),
    l.raw_pubkey, S("-o"), S("json")>>
    \o (IF ARKEOD_NODE # <<>> THEN <<S("--node"), ARKEOD_NODE>> ELSE <<>>)

AcctCmd(l) ==
  <<S("arkeod"), S("--home"), ARKEOD_HOME, S("query"), S("auth"), S("account"),
    l.bech32_pubkey, S("-o"), S("json")>>
    \o (IF ARKEOD_NODE # <<>> THEN <<S("--node"), ARKEOD_NODE>> ELSE <<>>)

mod_cmd_base(l) ==
  <<S("arkeod"), S("--home"), ARKEOD_HOME, S("tx"), S("arkeo"), S("mod-provider"),
    l.bech32_pubkey, l.resolved_service, sentinel_uri, metadata_nonce, status,
    min_contract_dur, max_contract_dur, subscription_rates, pay_as_you_go_rates,
    settlement_dur>>
    \o NODE_ARGS \o CHAIN_ARGS
    \o <<S("--from"), KEY_NAME, S("--fees"), fees, S("--keyring-backend"), KEYRING, S("-y")>>

\* the command of run_mod_with_sequence(seq_arg): seq_arg goes before --from
ModCmd_bare(l, seq_arg) == mod_cmd_base(l)

ModCmd(l, seq_arg) ==
  LET cmd == mod_cmd_base(l)
      insert_at == IF Index(cmd, S("--from")) = 0 THEN Len(cmd) + 1
                   ELSE Index(cmd, S("--from"))
  IN SubSeq(cmd, 1, insert_at - 1) \o seq_arg \o SubSeq(cmd, insert_at, Len(cmd))

(***************************************************************************)
(* Responses                                                               *)
(***************************************************************************)
PubkeyOf(l) == [raw |-> l.raw_pubkey, bech32 |-> l.bech32_pubkey]

PubkeyError(l, msg, out) ==
  [ http |-> 500,
    body |-> [ error |-> <<msg, out>>, pubkey_error |-> <<msg, out>>, user |-> KEY_NAME,
               keyring_backend |-> KEYRING, pubkey |-> PubkeyOf(l) ] ]

BondError(l) ==
  [ http |-> 500,
    body |-> [ error |-> "failed to bond provider", detail |-> l.bond_out, cmd |-> l.bond_cmd,
               inputs |-> [ service |-> l.service, resolved_service |-> l.resolved_service,
                            lookup_note |-> l.lookup_note, bond |-> bond,
                            keyring_backend |-> KEYRING, fees |-> fees ],
               pubkey |-> PubkeyOf(l), user |-> KEY_NAME ] ]

ModInputs(l) ==
  [ service |-> l.service, resolved_service |-> l.resolved_service,
    sentinel_uri |-> sentinel_uri, metadata_nonce |-> metadata_nonce, status |-> status,
    min_contract_dur |-> min_contract_dur, max_contract_dur |-> max_contract_dur,
    subscription_rates |-> subscription_rates, pay_as_you_go_rates |-> pay_as_you_go_rates,
    settlement_dur |-> settlement_dur, bond |-> bond, keyring_backend |-> KEYRING,
    fees |-> fees ]

SubmittedInputs(l) ==
  [ service |-> l.service, resolved_service |-> l.resolved_service,
    lookup_note |-> l.lookup_note,
    sentinel_uri |-> sentinel_uri, metadata_nonce |-> metadata_nonce, status |-> status,
    min_contract_dur |-> min_contract_dur, max_contract_dur |-> max_contract_dur,
    subscription_rates |-> subscription_rates, pay_as_you_go_rates |-> pay_as_you_go_rates,
    settlement_dur |-> settlement_dur, bond |-> bond, keyring_backend |-> KEYRING,
    fees |-> fees ]

ModError(l) ==
  [ http |-> 500,
    body |-> [ error |-> "failed to mod provider", detail |-> l.mod_out, cmd |-> l.mod_cmd,
               inputs |-> ModInputs(l), pubkey |-> PubkeyOf(l), user |-> KEY_NAME,
               bond_tx |-> [exit_code |-> l.bond_code, output |-> l.bond_out] ] ]

Submitted(l) ==
  [ http |-> 200,
    body |-> [ status |-> "bond_and_mod_submitted", user |-> KEY_NAME,
               inputs |-> SubmittedInputs(l),
               pubkey |-> PubkeyOf(l), bond_cmd |-> l.bond_cmd, mod_cmd |-> l.mod_cmd,
               bond_tx |-> [exit_code |-> l.bond_code, output |-> l.bond_out],
               mod_tx |-> [exit_code |-> l.mod_code, output |-> l.mod_out] ] ]

\* the tail of the handler: the response once the last mod-provider has run
Final_marker(l) ==
  IF l.mod_code # 0 \/ Contains(l.mod_out, "account sequence mismatch")
  THEN ModError(l) ELSE Submitted(l)

Final(l) == IF l.mod_code # 0 THEN ModError(l) ELSE Submitted(l)

(***************************************************************************)
(* The handler bond_and_mod_provider, one action per external call         *)
(***************************************************************************)
Set(r, l) == local' = [local EXCEPT ![r] = l]
Log(r, evs) == trace' = [trace EXCEPT ![r] = @ \o evs]
Reply(r, x) == resp' = [resp EXCEPT ![r] = x]
Done(l) == [l EXCEPT !.pc = "done"]

\* requests are numbered in order of arrival and served one at a time
NoneActive(r) ==
  /\ local[r].pc = "idle"
  /\ \A q \in Reqs : q < r => local[q].pc = "done"
  /\ \A q \in Reqs : q > r => local[q].pc = "idle"

\* the frame of a request whose response has been delivered
Gone == [Idle EXCEPT !.pc = "done"]

\* the numeric-id test: the first external call of the handler
FirstStep_nolookup(service) == "keys_show"

FirstStep_always(service) == "all_services"

FirstStep(service) == IF IsDigit(Strip(service)) THEN "all_services" ELSE "keys_show"

\* payload parsing up to the numeric-id test
Receive(r, service) ==
  LET l == [Idle EXCEPT !.service = service, !.resolved_service = service]
  IN /\ trace' = [q \in Reqs |-> <<>>]
     /\ IF service = <<>>
        THEN /\ local' = [q \in Reqs |-> IF q = r THEN Done(l)
                                           ELSE IF q < r THEN Gone ELSE Idle]
             /\ resp' = [q \in Reqs |-> IF q = r
                           THEN [http |-> 400, body |-> [error |-> "service is required"]]
                           ELSE NoResp]
        ELSE /\ local' = [q \in Reqs |-> IF q = r
                            THEN [l EXCEPT !.pc = FirstStep(service)]
                            ELSE IF q < r THEN Gone ELSE Idle]
             /\ resp' = [q \in Reqs |-> NoResp]
     /\ UNCHANGED registered

Start(r) ==
  /\ NoneActive(r)
  /\ \E service \in Services : Receive(r, service)

\* resolve a numeric service id to its name
ResolveService(r, oc) ==
  LET l == local[r]
      svc_id == Strip(l.service)
      looked_up == LookupServiceNameById(svc_id, oc)
  IN /\ l.pc = "all_services"
     /\ Log(r, <<RunEv("all-services", CatalogCmd, oc)>>)
     /\ IF looked_up.raised
        THEN Set(r, Done(l)) /\ Reply(r, Crash)
        ELSE /\ Set(r, IF Truthy(looked_up.val)
                       THEN [l EXCEPT !.pc = "keys_show", !.resolved_service = looked_up.val.s]
                       ELSE [l EXCEPT !.pc = "keys_show",
                               !.lookup_note = <<"could not resolve service id", " ">>
                                                 \o svc_id \o <<" ", "to name">>])
             /\ UNCHANGED resp
     /\ UNCHANGED registered

\* the tests that end derive_pubkeys with an error
RawMissing_ignored(raw_pubkey) == FALSE

RawMissing(raw_pubkey) == raw_pubkey = <<>>

Bech32Missing_ignored(bech32_pubkey) == FALSE

Bech32Missing(bech32_pubkey) == bech32_pubkey = <<>>

\* derive_pubkeys, first half: the raw public key
KeysShow(r, oc) ==
  LET l == local[r]
      parsed == ParseRawPubkey(oc.out)
  IN /\ l.pc = "keys_show"
     /\ Log(r, <<RunEv("keys-show", PubkeyCmd(KEY_NAME, KEYRING), oc)>>)
     /\ IF oc.exc THEN Set(r, Done(l)) /\ Reply(r, Crash)
        ELSE IF oc.code # 0
          THEN Set(r, Done(l)) /\ Reply(r, PubkeyError(l, "failed to fetch raw pubkey", oc.out))
        ELSE IF parsed.raised THEN Set(r, Done(l)) /\ Reply(r, Crash)
        ELSE IF RawMissing(parsed.val)
          THEN Set(r, Done(l)) /\ Reply(r, PubkeyError(l, "could not parse raw pubkey", oc.out))
        ELSE Set(r, [l EXCEPT !.pc = "pubkey_raw", !.raw_pubkey = parsed.val])
             /\ UNCHANGED resp
     /\ UNCHANGED registered

\* derive_pubkeys, second half: the bech32 form
PubkeyRaw(r, oc) ==
  LET l == local[r]
      bech32_pubkey == ParseBech32(oc.out)
  IN /\ l.pc = "pubkey_raw"
     /\ Log(r, <<RunEv("pubkey-raw", Bech32Cmd(l.raw_pubkey), oc)>>)
     /\ IF oc.exc THEN Set(r, Done(l)) /\ Reply(r, Crash)
        ELSE IF oc.code # 0
          THEN Set(r, Done(l)) /\ Reply(r, PubkeyError(l, "failed to convert pubkey", oc.out))
        ELSE IF Bech32Missing(bech32_pubkey)
          THEN Set(r, Done(l)) /\ Reply(r, PubkeyError(l, "Bech32 pubkey not found", oc.out))
        ELSE Set(r, [l EXCEPT !.pc = "provider", !.bech32_pubkey = bech32_pubkey])
             /\ UNCHANGED resp
     /\ UNCHANGED registered

\* does the provider already exist: the lookup exits 0 (an exception is "no")
SkipBond_never(oc) == FALSE

SkipBond_onerror(oc) == oc.exc \/ oc.code = 0

SkipBond_always(oc) == TRUE

SkipBond(oc) == ~oc.exc /\ oc.code = 0

\* where the handler goes after the lookup
AfterLookup_return(skip_bond) == IF skip_bond THEN "done" ELSE "bond_provider"

AfterLookup(skip_bond) == IF skip_bond THEN "account" ELSE "bond_provider"

\* the test that ends the handler after the bond transaction
BondFailed_ignored(bond_code) == FALSE

BondFailed(bond_code) == bond_code # 0

LookupProvider(r, oc) ==
  LET l == local[r]
  IN /\ l.pc = "provider"
     /\ Log(r, <<RunEv("provider", LookupCmd(l), oc)>>)
     /\ Set(r, IF SkipBond(oc)
               THEN [l EXCEPT !.pc = AfterLookup(TRUE), !.skip_bond = TRUE, !.bond_code = 0,
                              !.bond_out = <<"skipped", ":", " ", "provider already exists">>]
               ELSE [l EXCEPT !.pc = AfterLookup(FALSE), !.skip_bond = FALSE, !.bond_code = 0,
                              !.bond_out = <<"skipped", ":", " ", "provider already bonded">>])
     /\ UNCHANGED <<resp, registered>>

CheckExisting(r) ==
  /\ local[r].pc = "provider"
  /\ \E oc \in LookupOutcomes(<<local[r].bech32_pubkey, local[r].resolved_service>> \in registered) :
       LookupProvider(r, oc)

\* time.sleep(2) after a bond transaction that exited 0
Settle_none == <<>>

Settle == <<SleepEv(2)>>

\* the bond transaction; committed says whether the ledger accepted it
BondProvider(r, oc, committed) ==
  LET l == local[r]
      b == [l EXCEPT !.bond_cmd = BondCmd(l), !.bond_code = oc.code, !.bond_out = oc.out]
  IN /\ l.pc = "bond_provider"
     /\ IF oc.exc
        THEN /\ Log(r, <<RunEv("bond-provider", BondCmd(l), oc)>>)
             /\ Set(r, Done([l EXCEPT !.bond_cmd = BondCmd(l)])) /\ Reply(r, Crash)
             /\ UNCHANGED registered
        ELSE IF BondFailed(oc.code)
        THEN /\ Log(r, <<RunEv("bond-provider", BondCmd(l), oc)>>)
             /\ Set(r, Done(b)) /\ Reply(r, BondError(b))
             /\ UNCHANGED registered
        ELSE /\ Log(r, <<RunEv("bond-provider", BondCmd(l), oc)>> \o Settle)
             /\ Set(r, [b EXCEPT !.pc = "account"])
             /\ registered' = IF committed
                              THEN registered \cup {<<l.bech32_pubkey, l.resolved_service>>}
                              ELSE registered
             /\ UNCHANGED resp

FetchAttempts == 3

\* the recovery loop with the count of the first loop
RefetchAttempts_asfetch == FetchAttempts

RefetchAttempts == 2

\* where the handler goes after i failed iterations of the fetch loop
AfterFetch_abort(i) == IF i < FetchAttempts THEN "account" ELSE "done"

AfterFetch_extra(i) == IF i <= FetchAttempts THEN "account" ELSE "mod_provider"

AfterFetch(i) == IF i < FetchAttempts THEN "account" ELSE "mod_provider"

\* one iteration of the sequence-fetch loop before the first mod-provider
FetchSequence(r, oc) ==
  LET l == local[r]
      seq_arg == ParseSequence(oc)
  IN /\ l.pc = "account"
     /\ IF seq_arg # NoSeq
        THEN /\ Log(r, <<AcctEv(AcctCmd(l), seq_arg)>>)
             /\ Set(r, [l EXCEPT !.pc = "mod_provider", !.sequence_arg = seq_arg])
        ELSE /\ Log(r, <<AcctEv(AcctCmd(l), seq_arg), SleepEv(1)>>)
             /\ Set(r, [l EXCEPT !.i = l.i + 1,
                          !.pc = AfterFetch(l.i + 1)])
     /\ UNCHANGED <<resp, registered>>

\* retry_seq before the re-query loop: empty, or what the pattern extracted;
\* the sequence of the first submission plays no part
RetrySeqStart_reuse(sequence_arg, mod_out) ==
  IF ExpectedSeq(mod_out) # NoSeq THEN ExpectedSeq(mod_out) ELSE sequence_arg

RetrySeqStart(sequence_arg, mod_out) == ExpectedSeq(mod_out)

\* the test that starts the recovery: the marker is in str(mod_out)
NeedsRecovery_onfailure(mod_code, mod_out) == mod_code # 0 \/ HasMarker(mod_out)

NeedsRecovery(mod_code, mod_out) == HasMarker(mod_out)

\* run_mod_with_sequence(sequence_arg) and the mismatch test on its output
SubmitMod(r, oc) ==
  LET l == local[r]
      cmd == ModCmd(l, l.sequence_arg)
      m == [l EXCEPT !.mod_cmd = cmd, !.mod_code = oc.code, !.mod_out = oc.out]
  IN /\ l.pc = "mod_provider"
     /\ IF oc.exc
        THEN /\ Log(r, <<RunEv("mod-provider", cmd, oc)>>)
             /\ Set(r, Done(l)) /\ Reply(r, Crash)
        ELSE IF NeedsRecovery(oc.code, oc.out)
        THEN /\ Log(r, <<RunEv("mod-provider", cmd, oc), SleepEv(1)>>)
             /\ Set(r, [m EXCEPT !.retry_seq = RetrySeqStart(l.sequence_arg, oc.out), !.i = 0,
                          !.pc = IF ExpectedSeq(oc.out) # NoSeq THEN "retry" ELSE "refetch"])
             /\ UNCHANGED resp
        ELSE /\ Log(r, <<RunEv("mod-provider", cmd, oc)>>)
             /\ Set(r, Done(m)) /\ Reply(r, Final(m))
     /\ UNCHANGED registered

\* one iteration of the re-query loop of the recovery
RefetchSequence(r, oc) ==
  LET l == local[r]
      seq_arg == ParseSequence(oc)
  IN /\ l.pc = "refetch"
     /\ IF seq_arg # NoSeq
        THEN /\ Log(r, <<AcctEv(AcctCmd(l), seq_arg)>>)
             /\ Set(r, [l EXCEPT !.pc = "retry", !.retry_seq = seq_arg])
        ELSE /\ Log(r, <<AcctEv(AcctCmd(l), seq_arg), SleepEv(1)>>)
             /\ Set(r, [l EXCEPT !.i = l.i + 1,
                          !.pc = IF l.i + 1 < RefetchAttempts THEN "refetch" ELSE "retry"])
     /\ UNCHANGED <<resp, registered>>

\* mod_cmd, mod_code, mod_out = run_mod_with_sequence(retry_seq): the
\* resubmission replaces what the first submission left in the three variables
Resubmitted_kept(l, cmd, oc) == l

Resubmitted(l, cmd, oc) == [l EXCEPT !.mod_cmd = cmd, !.mod_code = oc.code, !.mod_out = oc.out]

\* run_mod_with_sequence(retry_seq) and the end of the handler
RetryMod(r, oc) ==
  LET l == local[r]
      cmd == ModCmd(l, l.retry_seq)
      m == Resubmitted(l, cmd, oc)
  IN /\ l.pc = "retry"
     /\ Log(r, <<RunEv("mod-provider", cmd, oc)>>)
     /\ IF oc.exc THEN Set(r, Done(l)) /\ Reply(r, Crash)
        ELSE Set(r, Done(m)) /\ Reply(r, Final(m))
     /\ UNCHANGED registered

Next ==
  \E r \in Reqs :
    \/ Start(r)
    \/ \E oc \in CatalogOutcomes : ResolveService(r, oc)
    \/ \E oc \in KeysShowOutcomes : KeysShow(r, oc)
    \/ \E oc \in PubkeyRawOutcomes : PubkeyRaw(r, oc)
    \/ CheckExisting(r)
    \/ \E oc \in BondOutcomes, committed \in BOOLEAN : BondProvider(r, oc, committed)
    \/ \E oc \in AccountOutcomes : FetchSequence(r, oc)
    \/ \E oc \in ModOutcomes : SubmitMod(r, oc)
    \/ \E oc \in AccountOutcomes : RefetchSequence(r, oc)
    \/ \E oc \in ModOutcomes : RetryMod(r, oc)

Spec == Init /\ [][Next]_vars

(***************************************************************************)
(* Two requests in flight at once.  app.run() serves every request in a    *)
(* thread of its own; each thread runs the handler above on its own local  *)
(* variables, and the handler takes no lock: the threads interleave at     *)
(* every external call.  Both requests name the same service, and the      *)
(* chain client's answers are cut to one failure and one success per call  *)
(* (the registration lookup keeps all of its answers).                     *)
(***************************************************************************)
Threads == {1, 2}

ThreadServices == {<<" ", "7">>}

\* the catalog answers that resolve the id 7 to a name
ThreadCatalogOutcomes ==
  {oc \in CatalogOutcomes :
     /\ ~LookupServiceNameById(<<"7">>, oc).raised
     /\ Truthy(LookupServiceNameById(<<"7">>, oc).val)}

ThreadKeysShowOutcomes ==
  {oc \in KeysShowOutcomes :
     ~oc.exc /\ (oc.code # 0 \/ (~ParseRawPubkey(oc.out).raised /\ ParseRawPubkey(oc.out).val # <<>>))}

ThreadPubkeyRawOutcomes ==
  {oc \in PubkeyRawOutcomes : ~oc.exc /\ (oc.code # 0 \/ ParseBech32(oc.out) # <<>>)}

ThreadBondOutcomes == {oc \in BondOutcomes : ~oc.exc}

ThreadAccountOutcomes ==
  {oc \in AccountOutcomes : ~oc.exc /\ (oc.code # 0 \/ ParseSequence(oc) = <<S("--sequence"), <<"4">>>>)}

ThreadModOutcomes ==
  {oc \in ModOutcomes :
     /\ ~oc.exc
     /\ \/ oc.code = 0 /\ ~HasMarker(oc.out)
        \/ oc.code # 0 /\ HasMarker(oc.out) /\ ExpectedSeq(oc.out) = NoSeq}

\* payload parsing up to the numeric-id test, in a thread of its own
ReceiveThread(r, service) ==
  LET l == [Idle EXCEPT !.service = service, !.resolved_service = service]
  IN /\ local[r].pc = "idle"
     /\ IF service = <<>>
        THEN /\ Set(r, Done(l))
             /\ Reply(r, [http |-> 400, body |-> [error |-> "service is required"]])
        ELSE /\ Set(r, [l EXCEPT !.pc = FirstStep(service)])
             /\ UNCHANGED resp
     /\ UNCHANGED <<trace, registered>>

StartThread(r) == \E service \in ThreadServices : ReceiveThread(r, service)

NextThreads ==
  \E r \in Threads :
    \/ StartThread(r)
    \/ \E oc \in ThreadCatalogOutcomes : ResolveService(r, oc)
    \/ \E oc \in ThreadKeysShowOutcomes : KeysShow(r, oc)
    \/ \E oc \in ThreadPubkeyRawOutcomes : PubkeyRaw(r, oc)
    \/ CheckExisting(r)
    \/ \E oc \in ThreadBondOutcomes, committed \in BOOLEAN : BondProvider(r, oc, committed)
    \/ \E oc \in ThreadAccountOutcomes : FetchSequence(r, oc)
    \/ \E oc \in ThreadModOutcomes : SubmitMod(r, oc)
    \/ \E oc \in ThreadAccountOutcomes : RefetchSequence(r, oc)
    \/ \E oc \in ThreadModOutcomes : RetryMod(r, oc)

SpecThreads == Init /\ [][NextThreads]_vars

(***************************************************************************)
(* One request on its own, arriving at a ledger on which the pairs it may  *)
(* name are all registered (by earlier requests) or none is.  The handler  *)
(* reads the ledger only through the registration lookup of its own pair.  *)
(***************************************************************************)
Ledgers ==
  { {},
    {<<"addr1">>} \X {<<"svc">>, <<" ", "7">>, <<"7", "a">>} }

InitRequest ==
  /\ local = [r \in Reqs |-> Idle]
  /\ trace = [r \in Reqs |-> <<>>]
  /\ resp = [r \in Reqs |-> NoResp]
  /\ registered \in Ledgers

NextRequest ==
  \E r \in {1} :
    \/ Start(r)
    \/ \E oc \in CatalogOutcomes : ResolveService(r, oc)
    \/ \E oc \in KeysShowOutcomes : KeysShow(r, oc)
    \/ \E oc \in PubkeyRawOutcomes : PubkeyRaw(r, oc)
    \/ CheckExisting(r)
    \/ \E oc \in BondOutcomes, committed \in BOOLEAN : BondProvider(r, oc, committed)
    \/ \E oc \in AccountOutcomes : FetchSequence(r, oc)
    \/ \E oc \in ModOutcomes : SubmitMod(r, oc)
    \/ \E oc \in AccountOutcomes : RefetchSequence(r, oc)
    \/ \E oc \in ModOutcomes : RetryMod(r, oc)

SpecRequest == InitRequest /\ [][NextRequest]_vars

(***************************************************************************)
(* Reading the trace                                                       *)
(***************************************************************************)
Pos(r, verb) == {i \in 1..Len(trace[r]) : trace[r][i].k = verb}

First(P) == CHOOSE i \in P : \A j \in P : i <= j
Last(P) == CHOOSE i \in P : \A j \in P : j <= i

\* the command exited with status 0
Ok(oc) == ~oc.exc /\ oc.code = 0

\* the value of the --sequence argument of a command line, None when absent
SeqOf(cmd) ==
  IF Index(cmd, S("--sequence")) = 0 THEN None ELSE cmd[Index(cmd, S("--sequence")) + 1]

Responded(r) == resp[r].http # 0

\* the bond phase a response reports, when it reports one
ReportsBond(r) == Responded(r) /\ "bond_tx" \in DOMAIN resp[r].body

(***************************************************************************)
(* C1: whenever the provider-registration lookup exits successfully, the   *)
(* request submits no bond-provider transaction, and the bond phase        *)
(* reported is the synthetic one: exit code 0, output beginning with       *)
(* "skipped", no bond command.                                             *)
(***************************************************************************)
C1_LookupOk(r) == \E i \in Pos(r, "provider") : Ok(trace[r][i].oc)

\* C1: a lookup that exits 0 means no bond-provider run and a reported bond
\* phase of exit code 0, output "skipped...", no bond command
C1_SkipsBondWhenRegistered ==
  \A r \in Reqs :
    C1_LookupOk(r) =>
      /\ Pos(r, "bond-provider") = {}
      /\ local[r].pc # "bond_provider"
      /\ ReportsBond(r) =>
           /\ resp[r].body.bond_tx.exit_code = 0
           /\ StartsWith(resp[r].body.bond_tx.output, "skipped")
           /\ "bond_cmd" \in DOMAIN resp[r].body => resp[r].body.bond_cmd = None

\* C1 witness: a request answered 200 after a lookup that exited 0
C1_Witness ==
  \E r \in Reqs : C1_LookupOk(r) /\ resp[r].http = 200 /\ resp[r].body.bond_cmd = None

(***************************************************************************)
(* C2: when the bond transaction exits non-zero the request ends at once   *)
(* with an error response: that bond submission is the only one and the    *)
(* last external step (no settle delay, account query or mod-provider).    *)
(***************************************************************************)
C2_BondExitedNonZero(r) ==
  \E i \in Pos(r, "bond-provider") : ~trace[r][i].oc.exc /\ trace[r][i].oc.code # 0

\* C2: a bond-provider run that exits non-zero is the only one, the last step
\* of the request, and is answered with the bond error
C2_BondFailureIsTerminal ==
  \A r \in Reqs :
    C2_BondExitedNonZero(r) =>
      /\ Cardinality(Pos(r, "bond-provider")) = 1
      /\ Last(Pos(r, "bond-provider")) = Len(trace[r])
      /\ Pos(r, "sleep") = {} \/ Last(Pos(r, "sleep")) < First(Pos(r, "bond-provider"))
      /\ Pos(r, "account") = {}
      /\ Pos(r, "mod-provider") = {}
      /\ local[r].pc = "done"
      /\ resp[r].http = 500
      /\ "error" \in DOMAIN resp[r].body
      /\ resp[r].body.cmd = trace[r][Len(trace[r])].cmd

\* C2 witness: a request whose bond-provider run exited non-zero
C2_Witness ==
  \E r \in Reqs : C2_BondExitedNonZero(r) /\ resp[r].http = 500

(***************************************************************************)
(* C3: when the output of the first mod-provider submission contains the   *)
(* mismatch marker and "expected N" (N the digits the pattern matches      *)
(* first), the recovery issues no account query and resubmits exactly      *)
(* once, with --sequence N.                                                *)
(***************************************************************************)
C3_FirstMod(r) == trace[r][First(Pos(r, "mod-provider"))]

C3_MismatchWithExpected(r) ==
  /\ Pos(r, "mod-provider") # {}
  /\ ~C3_FirstMod(r).oc.exc
  /\ HasMarker(C3_FirstMod(r).oc.out)
  /\ \E i \in 1..Len(C3_FirstMod(r).oc.out) : MatchesAt(C3_FirstMod(r).oc.out, i)

C3_ExpectedN(r) ==
  LET out == C3_FirstMod(r).oc.out
  IN GroupAt(out, First({i \in 1..Len(out) : MatchesAt(out, i)}))

\* C3: marker and "expected N" in the first output: no account query in the
\* recovery, exactly one resubmission, with --sequence N
C3_RecoveryUsesExpectedSequence ==
  \A r \in Reqs :
    C3_MismatchWithExpected(r) =>
      /\ \A i \in Pos(r, "account") : i < First(Pos(r, "mod-provider"))
      /\ Cardinality(Pos(r, "mod-provider")) <= 2
      /\ Cardinality(Pos(r, "mod-provider")) = 1 =>
           local[r].pc = "retry" /\ local[r].retry_seq = <<S("--sequence"), C3_ExpectedN(r)>>
      /\ Cardinality(Pos(r, "mod-provider")) = 2 =>
           /\ SeqOf(trace[r][Last(Pos(r, "mod-provider"))].cmd) = C3_ExpectedN(r)
           /\ local[r].pc = "done"

\* C3 witness: a finished recovery whose first output names several sequences
C3_Witness ==
  \E r \in Reqs :
    /\ C3_MismatchWithExpected(r)
    /\ Cardinality(Pos(r, "mod-provider")) = 2
    /\ C3_ExpectedN(r) = <<"7">>
    /\ Pos(r, "account") # {}

(***************************************************************************)
(* C4: when the first mod-provider submission and its resubmission both    *)
(* return output containing the mismatch marker, the request reports a     *)
(* failure, never success, and there is no third submission.               *)
(***************************************************************************)
C4_MismatchedTwice(r) ==
  /\ Cardinality(Pos(r, "mod-provider")) >= 2
  /\ \A i \in Pos(r, "mod-provider") : ~trace[r][i].oc.exc /\ HasMarker(trace[r][i].oc.out)

\* C4: two submissions whose outputs both carry the marker end in a failure
\* response, with no third submission
C4_DoubleMismatchIsFailure ==
  \A r \in Reqs :
    C4_MismatchedTwice(r) =>
      /\ Cardinality(Pos(r, "mod-provider")) = 2
      /\ local[r].pc = "done"
      /\ resp[r].http = 500

(***************************************************************************)
(* C5: a mod-provider transaction is submitted only after, in the same     *)
(* request, both keys of the identity were obtained non-empty and the      *)
(* service was resolved (for a numeric reference: after the catalog        *)
(* query); the command carries that encoded key and that service.          *)
(***************************************************************************)
C5_IdentityBefore(r, i) ==
  \E j \in Pos(r, "keys-show"), k \in Pos(r, "pubkey-raw") :
    /\ j < k /\ k < i
    /\ Ok(trace[r][j].oc) /\ Ok(trace[r][k].oc)
    /\ trace[r][k].cmd[4] # <<>>
    /\ ParseRawPubkey(trace[r][j].oc.out) = Ret(trace[r][k].cmd[4])
    /\ trace[r][i].cmd[7] # <<>>
    /\ ParseBech32(trace[r][k].oc.out) = trace[r][i].cmd[7]

C5_ServiceBefore(r, i) ==
  /\ trace[r][i].cmd[8] # <<>>
  /\ trace[r][i].cmd[8] = local[r].resolved_service
  /\ IsDigit(Strip(local[r].service)) =>
       \E j \in Pos(r, "all-services") : j < i /\ j < First(Pos(r, "keys-show"))

\* C5: every mod-provider run comes after the identity and the service of the
\* same request were produced, and carries them
C5_ModOnlyAfterIdentityAndService ==
  \A r \in Reqs : \A i \in Pos(r, "mod-provider") :
    C5_IdentityBefore(r, i) /\ C5_ServiceBefore(r, i)

\* C5 witness: two mod-provider runs for a service the catalog resolved
C5_Witness ==
  \E r \in Reqs :
    /\ Cardinality(Pos(r, "mod-provider")) = 2
    /\ Pos(r, "all-services") # {}
    /\ local[r].resolved_service = <<"svc">>

(***************************************************************************)
(* C6: when identity resolution fails (the key lookup errors or gives an   *)
(* empty or unparseable key, or the encoding errors or gives no encoded    *)
(* key) the request ends there with an error response: the failing call    *)
(* is not repeated and no lookup, bond, account query or mod-provider      *)
(* follows.                                                                *)
(***************************************************************************)
\* the key is absent, not text, or blank
C6_NoKey(out) ==
  \/ out = NotJson
  \/ ~IsDict(out)
  \/ "key" \notin DOMAIN out.f
  \/ out.f["key"].t # "str"
  \/ \A i \in 1..Len(out.f["key"].s) : out.f["key"].s[i] \in Whitespace

\* no line of the output gives an encoded key after "Bech32 Acc:"
C6_NoBech32(lines) ==
  \/ \A i \in 1..Len(lines) : ~StartsWith(lines[i], "Bech32 Acc:")
  \/ LET first == lines[First({i \in 1..Len(lines) : StartsWith(lines[i], "Bech32 Acc:")})]
     IN \A i \in 2..Len(first) : first[i] \in Whitespace \cup {"Bech32 Acc:"}

C6_IdentityFailed(r) ==
  \/ \E i \in Pos(r, "keys-show") : ~Ok(trace[r][i].oc) \/ C6_NoKey(trace[r][i].oc.out)
  \/ \E i \in Pos(r, "pubkey-raw") : ~Ok(trace[r][i].oc) \/ C6_NoBech32(trace[r][i].oc.out)

\* C6: a failed identity resolution is the last step of the request, is not
\* repeated, and is answered with an error
C6_IdentityFailureIsTerminal ==
  \A r \in Reqs :
    C6_IdentityFailed(r) =>
      /\ trace[r][Len(trace[r])].k \in {"keys-show", "pubkey-raw"}
      /\ Cardinality(Pos(r, "keys-show")) = 1
      /\ Cardinality(Pos(r, "pubkey-raw")) <= 1
      /\ Pos(r, "provider") = {} /\ Pos(r, "bond-provider") = {}
      /\ Pos(r, "account") = {} /\ Pos(r, "mod-provider") = {}
      /\ local[r].pc = "done"
      /\ resp[r].http = 500

\* C6 witness: the encoding step ran, exited 0 and gave no encoded key
C6_Witness ==
  \E r \in Reqs :
    /\ C6_IdentityFailed(r)
    /\ Pos(r, "pubkey-raw") # {}
    /\ Ok(trace[r][Len(trace[r])].oc)
    /\ "pubkey_error" \in DOMAIN resp[r].body

(***************************************************************************)
(* C7: when the catalog lookup for a numeric service reference fails (the  *)
(* query errors, the response is unusable, or no entry has exactly that    *)
(* id), the resolved service is the reference as given, a note is          *)
(* attached, and the request goes on to identity resolution.               *)
(***************************************************************************)
\* the response holds an entry whose id is sid
C7_HasEntry(out, sid) ==
  /\ out # NotJson
  /\ IsDict(out)
  /\ \E i \in 1..Len(CatalogServices(out)) : ItemMatches(CatalogServices(out)[i], sid)

C7_LookupFailed(r) ==
  \E i \in Pos(r, "all-services") :
    ~Ok(trace[r][i].oc) \/ ~C7_HasEntry(trace[r][i].oc.out, Strip(local[r].service))

\* C7: a failed catalog lookup leaves the reference as the resolved service,
\* attaches the note and is followed by identity resolution
C7_FailedLookupIsSoft ==
  \A r \in Reqs :
    C7_LookupFailed(r) =>
      /\ local[r].resolved_service = local[r].service
      /\ local[r].lookup_note # <<>>
      /\ Len(trace[r]) = 1 => local[r].pc = "keys_show" /\ ~Responded(r)
      /\ Len(trace[r]) > 1 => trace[r][2].k = "keys-show"

(***************************************************************************)
(* C8: when every account query before the first mod-provider submission   *)
(* yields no sequence, the request is not ended: mod-provider is still     *)
(* submitted, without a --sequence argument, and the response is the       *)
(* success response when that submission exits 0 without the marker.       *)
(***************************************************************************)
C8_FetchExhausted(r) ==
  /\ Cardinality({i \in Pos(r, "account") :
        Pos(r, "mod-provider") # {} => i < First(Pos(r, "mod-provider"))}) = FetchAttempts
  /\ \A i \in Pos(r, "account") :
       (Pos(r, "mod-provider") # {} => i < First(Pos(r, "mod-provider")))
         => trace[r][i].seq = NoSeq

\* C8: three account queries without a sequence are followed by a
\* mod-provider run without --sequence, and cause no error response
C8_FetchFailureIsSoft ==
  \A r \in Reqs :
    C8_FetchExhausted(r) =>
      /\ Pos(r, "mod-provider") = {} => local[r].pc = "mod_provider" /\ ~Responded(r)
      /\ Pos(r, "mod-provider") # {} =>
           LET m == trace[r][First(Pos(r, "mod-provider"))]
           IN /\ SeqOf(m.cmd) = None
              /\ Index(m.cmd, S("--sequence")) = 0
              /\ (Ok(m.oc) /\ ~HasMarker(m.oc.out)) => resp[r].http = 200

\* C8 witness: a request answered 200 after three fruitless account queries
C8_Witness ==
  \E r \in Reqs :
    /\ C8_FetchExhausted(r)
    /\ Pos(r, "mod-provider") # {}
    /\ resp[r].http = 200

(***************************************************************************)
(* C9: a registration lookup that exits non-zero or raises is read as      *)
(* "not registered": no error is reported for it and the next step is the  *)
(* bond submission.                                                        *)
(***************************************************************************)
C9_LookupFailed(r) == \E i \in Pos(r, "provider") : ~Ok(trace[r][i].oc)

\* C9: a lookup that exits non-zero or raises is followed directly by the
\* bond-provider run
C9_FailedLookupLeadsToBond ==
  \A r \in Reqs :
    C9_LookupFailed(r) =>
      LET i == First(Pos(r, "provider"))
      IN /\ i = Len(trace[r]) => local[r].pc = "bond_provider" /\ ~Responded(r)
         /\ i < Len(trace[r]) => trace[r][i + 1].k = "bond-provider"

\* C9 witness: the lookup raised for a pair that ends up registered
C9_Witness ==
  \E r \in Reqs :
    /\ Pos(r, "provider") # {}
    /\ trace[r][First(Pos(r, "provider"))].oc.exc
    /\ Pos(r, "bond-provider") # {}
    /\ <<local[r].bech32_pubkey, local[r].resolved_service>> \in registered
    /\ resp[r].http = 200

(***************************************************************************)
(* C10: a later call for a pair that an earlier call left registered.      *)
(* As claimed: it submits no bond.  As the handler behaves: it submits no  *)
(* bond when its registration lookup exits 0; it then submits              *)
(* mod-provider and answers success when the last submission exits 0.      *)
(***************************************************************************)
C10_Pair(r) == <<local[r].bech32_pubkey, local[r].resolved_service>>

\* r is past its lookup, and the pair was registered before r bonded anything
C10_RegisteredByEarlierCall(r) ==
  /\ r > 1
  /\ Pos(r, "provider") # {}
  /\ C10_Pair(r) \in registered
  /\ Pos(r, "bond-provider") = {}

C11_Pair(r) == <<local[r].bech32_pubkey, local[r].resolved_service>>

C11_PastCheck(r) == Pos(r, "provider") # {}

C11_SubmittedBond(r) == \E i \in Pos(r, "bond-provider") : Ok(trace[r][i].oc)

\* C11: while no bond has committed, every request that has passed the
\* registration check is at, or past, its own bond submission whatever the
\* other request has done, and a request at the bond submission never waits
C11_NoMutualExclusion ==
  /\ registered = {} =>
       \A r \in Threads :
         C11_PastCheck(r) =>
           /\ ~local[r].skip_bond
           /\ local[r].pc = "bond_provider" \/ Pos(r, "bond-provider") # {}
  /\ \A r \in Threads :
       local[r].pc = "bond_provider" =>
         ENABLED (\E oc \in ThreadBondOutcomes, c \in BOOLEAN : BondProvider(r, oc, c))

\* C11 witness: two requests in flight for one pair, no bond committed, both
\* told "not registered" by the lookup and both with a bond submitted
C11_Witness ==
  /\ registered = {}
  /\ C11_Pair(1) = C11_Pair(2)
  /\ \A r \in Threads :
       /\ ~Responded(r)
       /\ local[r].pc = "account"
       /\ ~trace[r][First(Pos(r, "provider"))].oc.exc
       /\ C11_SubmittedBond(r)

(***************************************************************************)
(* C12: the plain path.  Lookup fails, bond-provider exits 0, the first    *)
(* account query yields a sequence s, mod-provider exits 0 without the     *)
(* marker.  Then the bond carried the resolved service, there is exactly   *)
(* one mod-provider run, it carried --sequence s, nothing of the recovery  *)
(* ran, and the response is the success response showing both phases.      *)
(***************************************************************************)
C12_PlainPath(r) ==
  /\ Pos(r, "provider") # {} /\ ~Ok(trace[r][First(Pos(r, "provider"))].oc)
  /\ Pos(r, "bond-provider") # {} /\ Ok(trace[r][First(Pos(r, "bond-provider"))].oc)
  /\ Pos(r, "account") # {} /\ trace[r][First(Pos(r, "account"))].seq # NoSeq
  /\ Pos(r, "mod-provider") # {}
  /\ Ok(trace[r][First(Pos(r, "mod-provider"))].oc)
  /\ ~HasMarker(trace[r][First(Pos(r, "mod-provider"))].oc.out)

\* C12: on the plain path one bond for the resolved service, one account
\* query, one mod-provider run with the sequence queried, no recovery, and a
\* 200 response showing both commands and both transaction outcomes
C12_PlainPathSucceeds ==
  \A r \in Reqs :
    C12_PlainPath(r) =>
      LET b == trace[r][First(Pos(r, "bond-provider"))]
          a == trace[r][First(Pos(r, "account"))]
          m == trace[r][First(Pos(r, "mod-provider"))]
      IN /\ Cardinality(Pos(r, "bond-provider")) = 1
         /\ b.cmd[8] = local[r].resolved_service
         /\ Cardinality(Pos(r, "mod-provider")) = 1
         /\ <<S("--sequence"), SeqOf(m.cmd)>> = a.seq
         /\ Cardinality(Pos(r, "account")) = 1
         /\ First(Pos(r, "mod-provider")) = Len(trace[r])
         /\ \A i \in Pos(r, "sleep") : i < First(Pos(r, "account"))
         /\ local[r].pc = "done"
         /\ resp[r].http = 200
         /\ resp[r].body.status = "bond_and_mod_submitted"
         /\ resp[r].body.inputs.resolved_service = b.cmd[8]
         /\ resp[r].body.bond_cmd = b.cmd
         /\ resp[r].body.bond_tx = [exit_code |-> 0, output |-> b.oc.out]
         /\ resp[r].body.mod_cmd = m.cmd
         /\ resp[r].body.mod_tx = [exit_code |-> 0, output |-> m.oc.out]

\* C12 witness: the plain path for a service the catalog resolved, sequence 42
C12_Witness ==
  \E r \in Reqs :
    /\ C12_PlainPath(r)
    /\ local[r].resolved_service = <<"svc">>
    /\ trace[r][First(Pos(r, "account"))].seq = <<S("--sequence"), <<"4", "2">>>>
    /\ resp[r].http = 200

(***************************************************************************)
(* C13: recovery that succeeds.  The first mod-provider output carries the *)
(* marker and "expected N"; the resubmission with --sequence N exits 0     *)
(* without the marker.  Then the response is the success response, and the *)
(* mod command and transaction outcome it shows are the resubmission's.    *)
(* (The response has no field of its own for "recovered": the command      *)
(* with --sequence N and the second output are what it shows.)             *)
(***************************************************************************)
C13_Resubmission(r) == trace[r][Last(Pos(r, "mod-provider"))]

C13_RecoverySucceeded(r) ==
  /\ C3_MismatchWithExpected(r)
  /\ Cardinality(Pos(r, "mod-provider")) = 2
  /\ Ok(C13_Resubmission(r).oc)
  /\ ~HasMarker(C13_Resubmission(r).oc.out)

\* C13: after a successful resubmission with the expected sequence N the
\* response is 200 and shows the resubmission's command (carrying N) and
\* outcome, not the first attempt's
C13_ResultShowsResubmission ==
  \A r \in Reqs :
    C13_RecoverySucceeded(r) =>
      /\ SeqOf(C13_Resubmission(r).cmd) = C3_ExpectedN(r)
      /\ resp[r].http = 200
      /\ resp[r].body.status = "bond_and_mod_submitted"
      /\ resp[r].body.mod_cmd = C13_Resubmission(r).cmd
      /\ SeqOf(resp[r].body.mod_cmd) = C3_ExpectedN(r)
      /\ resp[r].body.mod_tx = [exit_code |-> 0, output |-> C13_Resubmission(r).oc.out]
      /\ resp[r].body.mod_tx.output # C3_FirstMod(r).oc.out

\* C13 witness: the first attempt carried sequence 4 and exited 1 asking for
\* 42; the response shows the command with sequence 42
C13_Witness ==
  \E r \in Reqs :
    /\ C13_RecoverySucceeded(r)
    /\ SeqOf(C3_FirstMod(r).cmd) = <<"4">>
    /\ C3_FirstMod(r).oc.code = 1
    /\ resp[r].http = 200
    /\ SeqOf(resp[r].body.mod_cmd) = <<"4", "2">>

(***************************************************************************)
(* C14: every error response of the handler (identity, bond, mod-provider  *)
(* with or without recovery) carries the context gathered so far: the      *)
(* keys, the resolved service, the parameters of the attempted command and *)
(* the raw output of the external call that failed.                        *)
(***************************************************************************)
C14_Failed(r) ==
  /\ local[r].pc = "done"
  /\ resp[r].http = 500
  /\ "error" \in DOMAIN resp[r].body

\* the last external call of the request: the one that failed
C14_FailingCall(r) == trace[r][Last({i \in 1..Len(trace[r]) : trace[r][i].k # "sleep"})]

C14_ShowsIdentity(r) ==
  /\ "pubkey" \in DOMAIN resp[r].body
  /\ resp[r].body.pubkey = PubkeyOf(local[r])

C14_ShowsService(r) ==
  /\ "inputs" \in DOMAIN resp[r].body
  /\ resp[r].body.inputs.service = local[r].service
  /\ resp[r].body.inputs.resolved_service = local[r].resolved_service

C14_ShowsParameters(r) ==
  IF "cmd" \in DOMAIN resp[r].body
  THEN resp[r].body.cmd = C14_FailingCall(r).cmd
  ELSE /\ "user" \in DOMAIN resp[r].body /\ "keyring_backend" \in DOMAIN resp[r].body
       /\ C14_FailingCall(r).k = "keys-show" =>
            /\ resp[r].body.user = C14_FailingCall(r).cmd[6]
            /\ resp[r].body.keyring_backend = C14_FailingCall(r).cmd[9]

C14_ShowsRawOutput(r) ==
  IF "detail" \in DOMAIN resp[r].body
  THEN resp[r].body.detail = C14_FailingCall(r).oc.out
  ELSE resp[r].body.error[2] = C14_FailingCall(r).oc.out

\* C14: an error response shows the keys, the resolved service, the
\* parameters of the failing command and its raw output
C14_FailureReturnsContext ==
  \A r \in Reqs :
    C14_Failed(r) =>
      /\ C14_ShowsIdentity(r)
      /\ C14_ShowsService(r)
      /\ C14_ShowsParameters(r)
      /\ C14_ShowsRawOutput(r)

\* what holds: the keys, parameters and raw output in every error response,
\* the service in those of the bond and mod-provider failures
C14_ServiceShownAfterIdentity ==
  \A r \in Reqs :
    C14_Failed(r) =>
      /\ C14_ShowsIdentity(r)
      /\ C14_ShowsParameters(r)
      /\ C14_ShowsRawOutput(r)
      /\ C14_ShowsService(r) <=> C14_FailingCall(r).k \in {"bond-provider", "mod-provider"}

(***************************************************************************)
(* C15: when the first mod-provider submission fails and its output does   *)
(* not contain the marker, the request ends there with an error: that      *)
(* submission is the only one, and no sleep, account query or resubmission *)
(* follows it.                                                             *)
(***************************************************************************)
C15_FailedWithoutMarker(r) ==
  /\ Pos(r, "mod-provider") # {}
  /\ LET m == trace[r][First(Pos(r, "mod-provider"))]
     IN \/ m.oc.exc
        \/ m.oc.code # 0 /\ ~Contains(m.oc.out, MismatchMarker)

\* C15: a first mod-provider run that fails without the marker is the only
\* one and the last step of the request, and is answered with an error
C15_PlainFailureIsTerminal ==
  \A r \in Reqs :
    C15_FailedWithoutMarker(r) =>
      LET m == trace[r][First(Pos(r, "mod-provider"))]
      IN /\ Cardinality(Pos(r, "mod-provider")) = 1
         /\ First(Pos(r, "mod-provider")) = Len(trace[r])
         /\ local[r].pc = "done"
         /\ resp[r].http = 500
         /\ ~m.oc.exc =>
              /\ "error" \in DOMAIN resp[r].body
              /\ resp[r].body.cmd = m.cmd
              /\ resp[r].body.detail = m.oc.out

\* C15 witness: the submission exited 1 printing "expected 4" without the
\* marker, after the account queries
C15_Witness ==
  \E r \in Reqs :
    /\ C15_FailedWithoutMarker(r)
    /\ ~trace[r][First(Pos(r, "mod-provider"))].oc.exc
    /\ Contains(trace[r][First(Pos(r, "mod-provider"))].oc.out, "expected")
    /\ Pos(r, "account") # {}
    /\ resp[r].http = 500

(***************************************************************************)
(* C16: recovery without an extractable sequence.  The first mod-provider  *)
(* output carries the marker but nothing the pattern matches.  Then the    *)
(* account is queried again at most twice, stopping at the first query     *)
(* that yields a sequence, and mod-provider is resubmitted exactly once,   *)
(* with the sequence obtained, or with none when both queries failed.      *)
(***************************************************************************)
C16_NothingExtracted(r) ==
  /\ Pos(r, "mod-provider") # {}
  /\ LET first == C3_FirstMod(r)
     IN /\ ~first.oc.exc
        /\ Contains(first.oc.out, MismatchMarker)
        /\ \A i \in 1..Len(first.oc.out) : ~MatchesAt(first.oc.out, i)

\* the account queries of the recovery
C16_Requeries(r) == {i \in Pos(r, "account") : i > First(Pos(r, "mod-provider"))}

\* the re-querying is over: one query yielded a sequence, or two were made
C16_RequeryOver(r) ==
  \/ \E i \in C16_Requeries(r) : trace[r][i].seq # NoSeq
  \/ Cardinality(C16_Requeries(r)) = 2

\* the sequence the re-querying obtained, None when it obtained none
C16_Obtained(r) ==
  IF \E i \in C16_Requeries(r) : trace[r][i].seq # NoSeq
  THEN trace[r][Last(C16_Requeries(r))].seq[2]
  ELSE None

\* C16: at most two re-queries, none after one that yields a sequence, then
\* exactly one resubmission carrying what was obtained, in every case
C16_RequeryThenResubmitOnce ==
  \A r \in Reqs :
    C16_NothingExtracted(r) =>
      LET mods == Pos(r, "mod-provider")
          requeries == C16_Requeries(r)
          over == C16_RequeryOver(r)
          obtained == C16_Obtained(r)
          resubmission == trace[r][Last(mods)]
      IN /\ Cardinality(requeries) <= 2
         /\ \A i, j \in requeries : trace[r][i].seq # NoSeq => j <= i
         /\ Cardinality(mods) <= 2
         /\ Cardinality(mods) = 1 =>
              /\ ~Responded(r)
              /\ local[r].pc = IF over THEN "retry" ELSE "refetch"
         /\ Cardinality(mods) = 2 =>
              /\ over
              /\ \A i \in requeries : i < Last(mods)
              /\ SeqOf(resubmission.cmd) = obtained
              /\ obtained = None => Index(resubmission.cmd, S("--sequence")) = 0
              /\ Last(mods) = Len(trace[r])
              /\ local[r].pc = "done"

\* C16 witness: the first submission carried sequence 4; the first re-query
\* failed, the second gave 42, and the resubmission carried 42
C16_Witness ==
  \E r \in Reqs :
    /\ C16_NothingExtracted(r)
    /\ SeqOf(C3_FirstMod(r).cmd) = <<"4">>
    /\ Cardinality(C16_Requeries(r)) = 2
    /\ Cardinality(Pos(r, "mod-provider")) = 2
    /\ SeqOf(trace[r][Last(Pos(r, "mod-provider"))].cmd) = <<"4", "2">>

(***************************************************************************)
(* C17: the order of the first steps.  As claimed: identity resolution is  *)
(* the first external call, so a request whose identity resolution fails   *)
(* has issued no catalog query.  As the handler behaves: the service is    *)
(* resolved first (one catalog query, for a numeric reference only), then  *)
(* the identity, then the registration lookup.                             *)
(***************************************************************************)
C17_Numeric(r) == IsDigit(Strip(local[r].service))

\* C17 as claimed: the first external call is the key lookup, and a failed
\* identity resolution means no catalog query was issued
C17_IdentityResolvedFirst ==
  \A r \in Reqs :
    /\ trace[r] # <<>> => trace[r][1].k = "keys-show"
    /\ C6_IdentityFailed(r) => Pos(r, "all-services") = {}

\* C17 amended: catalog query (numeric reference only) before the key
\* lookup, key lookup and encoding before the registration lookup
C17_ServiceThenIdentityThenCheck ==
  \A r \in Reqs :
    /\ (trace[r] # <<>> /\ C17_Numeric(r)) =>
         /\ trace[r][1].k = "all-services"
         /\ Pos(r, "all-services") = {1}
    /\ (trace[r] # <<>> /\ ~C17_Numeric(r)) =>
         /\ trace[r][1].k = "keys-show"
         /\ Pos(r, "all-services") = {}
    /\ \A j \in Pos(r, "keys-show") : \A i \in Pos(r, "all-services") : i < j
    /\ \A p \in Pos(r, "provider") :
         \E j \in Pos(r, "keys-show"), k \in Pos(r, "pubkey-raw") : j < k /\ k < p
    /\ \A p \in Pos(r, "provider") :
         \A i \in 1..Len(trace[r]) :
           trace[r][i].k \in {"bond-provider", "account", "mod-provider"} => p < i
    /\ (C6_IdentityFailed(r) /\ C17_Numeric(r)) => Cardinality(Pos(r, "all-services")) = 1

\* C17 witness: a numeric reference, the catalog queried, then the key
\* lookup failed
C17_Witness ==
  \E r \in Reqs :
    /\ C17_Numeric(r)
    /\ C6_IdentityFailed(r)
    /\ trace[r][1].k = "all-services"
    /\ trace[r][2].k = "keys-show"
    /\ resp[r].http = 500

(***************************************************************************)
(* C18: the settle delay of 2 happens exactly when this request submitted  *)
(* a bond transaction that exited 0: right after that submission, before   *)
(* the first account query, once; a request whose bond phase is skipped,   *)
(* or whose bond failed, has no settle delay.                              *)
(***************************************************************************)
C18_Settles(r) == {i \in Pos(r, "sleep") : trace[r][i].d = 2}

C18_BondOk(r) == {i \in Pos(r, "bond-provider") : Ok(trace[r][i].oc)}

\* C18: the delays of 2 are exactly the entries that follow a bond-provider
\* run that exited 0, and every account query comes after them
C18_SettleDelayFollowsBond ==
  \A r \in Reqs :
    /\ C18_Settles(r) = {b + 1 : b \in C18_BondOk(r)}
    /\ Cardinality(C18_Settles(r)) <= 1
    /\ \A i \in C18_Settles(r) : \A a \in Pos(r, "account") \cup Pos(r, "mod-provider") : i < a
    /\ local[r].skip_bond => C18_Settles(r) = {}
    /\ (Pos(r, "account") # {} /\ C18_Settles(r) = {}) =>
         /\ Pos(r, "bond-provider") = {}
         /\ local[r].skip_bond

\* C18 witness: a request that bonded, waited 2 and then queried the account
C18_Witness ==
  \E r \in Reqs :
    /\ C18_BondOk(r) # {}
    /\ C18_Settles(r) # {}
    /\ Pos(r, "account") # {}
    /\ trace[r][First(Pos(r, "account")) - 1] = SleepEv(2)

(***************************************************************************)
(* C19: the catalog is queried only for a service reference that, trimmed, *)
(* consists of digits.  For any other reference there is no catalog query, *)
(* the resolved service is the reference as given, and no note is          *)
(* attached.                                                               *)
(***************************************************************************)
C19_AllDigits(service) ==
  LET t == Strip(service)
  IN t # <<>> /\ \A i \in 1..Len(t) : t[i] \in Digits

\* C19: a catalog query implies a numeric reference; a non-numeric reference
\* is passed on unchanged, without query and without note
C19_NonNumericPassesThrough ==
  \A r \in Reqs :
    /\ (Pos(r, "all-services") # {} \/ local[r].pc = "all_services") => C19_AllDigits(local[r].service)
    /\ ~C19_AllDigits(local[r].service) =>
         /\ Pos(r, "all-services") = {}
         /\ local[r].resolved_service = local[r].service
         /\ local[r].lookup_note = <<>>
         /\ \A i \in Pos(r, "provider") \cup Pos(r, "bond-provider") \cup Pos(r, "mod-provider") :
              trace[r][i].cmd[8] = local[r].service
         /\ (Responded(r) /\ "inputs" \in DOMAIN resp[r].body) =>
              /\ resp[r].body.inputs.resolved_service = local[r].service
              /\ "lookup_note" \in DOMAIN resp[r].body.inputs =>
                   resp[r].body.inputs.lookup_note = <<>>

\* C19 witness: a non-numeric reference that begins with a digit, bonded and
\* submitted under its own name
C19_Witness ==
  \E r \in Reqs :
    /\ local[r].service = <<"7", "a">>
    /\ Pos(r, "bond-provider") # {}
    /\ resp[r].http = 200
    /\ resp[r].body.inputs.resolved_service = <<"7", "a">>

(***************************************************************************)
(* C20: the external calls of one request are bounded: at most one         *)
(* bond-provider run; at most two mod-provider runs, the second only after *)
(* a first whose output carried the marker; at most three account queries  *)
(* before the first mod-provider run, none after one that yields a         *)
(* sequence; at most two between the two mod-provider runs.                *)
(***************************************************************************)
\* the account queries before the first mod-provider run
C20_Before(r) ==
  {i \in Pos(r, "account") : Pos(r, "mod-provider") # {} => i < First(Pos(r, "mod-provider"))}

\* the account queries after the first mod-provider run
C20_Between(r) ==
  {i \in Pos(r, "account") : Pos(r, "mod-provider") # {} /\ i > First(Pos(r, "mod-provider"))}

\* C20: the counts of bond-provider runs, mod-provider runs and account
\* queries of a request never exceed 1, 2, 3 (before) and 2 (between)
C20_CallCountsBounded ==
  \A r \in Reqs :
    LET mods == Pos(r, "mod-provider")
        before == C20_Before(r)
        between == C20_Between(r)
    IN /\ Cardinality(Pos(r, "bond-provider")) <= 1
       /\ Cardinality(mods) <= 2
       /\ Cardinality(mods) = 2 =>
            /\ ~trace[r][First(mods)].oc.exc
            /\ Contains(trace[r][First(mods)].oc.out, MismatchMarker)
       /\ Cardinality(before) <= 3
       /\ \A i, j \in before : trace[r][i].seq # NoSeq => j <= i
       /\ Cardinality(between) <= 2
       /\ \A i, j \in between : trace[r][i].seq # NoSeq => j <= i
       /\ Cardinality(mods) = 2 => \A i \in between : i < Last(mods)

\* C20 witness: a request at every maximum: one bond, three queries, a
\* submission, two more queries and the resubmission
C20_Witness ==
  \E r \in Reqs :
    /\ Cardinality(Pos(r, "bond-provider")) = 1
    /\ Cardinality(Pos(r, "mod-provider")) = 2
    /\ Cardinality(C20_Before(r)) = 3
    /\ Cardinality(C20_Between(r)) = 2
    /\ local[r].pc = "done"

(***************************************************************************)
(* C21: once the identity is resolved and the bond phase has not failed,   *)
(* the response is the success response exactly when the last mod-provider *)
(* run exited 0.  The recovery runs exactly when the marker is in the      *)
(* first run's output, whatever that run's exit code, and a marker in the  *)
(* last output does not change the response.                               *)
(***************************************************************************)
C21_IdentityResolved(r) ==
  \E k \in Pos(r, "pubkey-raw") : Ok(trace[r][k].oc) /\ ParseBech32(trace[r][k].oc.out) # <<>>

C21_BondNotFailed(r) ==
  /\ Pos(r, "provider") # {}
  /\ \A b \in Pos(r, "bond-provider") : Ok(trace[r][b].oc)

C21_Marked(oc) == ~oc.exc /\ Contains(oc.out, MismatchMarker)

\* C21: a finished request past identity and bond answers 200 iff its last
\* mod-provider run exited 0; it has a second run iff the first output
\* carried the marker
C21_StatusFollowsLastExitCode ==
  \A r \in Reqs :
    (C21_IdentityResolved(r) /\ C21_BondNotFailed(r)) =>
      LET mods == Pos(r, "mod-provider")
      IN /\ local[r].pc = "done" =>
              /\ mods # {}
              /\ resp[r].http = 200 <=> Ok(trace[r][Last(mods)].oc)
              /\ resp[r].http # 200 => resp[r].http = 500
              /\ Cardinality(mods) = 2 <=> C21_Marked(trace[r][First(mods)].oc)
         /\ (mods # {} /\ local[r].pc # "done") =>
              /\ Cardinality(mods) = 1
              /\ C21_Marked(trace[r][First(mods)].oc)
              /\ local[r].pc \in {"refetch", "retry"}

\* C21 witness: the first run exited 0 with the marker, the recovery ran, the
\* resubmission exited 0 with the marker again, and the response is 200
C21_Witness ==
  \E r \in Reqs :
    /\ C21_IdentityResolved(r) /\ C21_BondNotFailed(r)
    /\ Cardinality(Pos(r, "mod-provider")) = 2
    /\ Ok(trace[r][First(Pos(r, "mod-provider"))].oc)
    /\ Ok(trace[r][Last(Pos(r, "mod-provider"))].oc)
    /\ C21_Marked(trace[r][Last(Pos(r, "mod-provider"))].oc)
    /\ resp[r].http = 200

(***************************************************************************)
(* C22: the resubmission never takes over the sequence queried before the  *)
(* first submission.  Its sequence is the one extracted from the mismatch  *)
(* output, else the one a re-query of the recovery yielded, else none,     *)
(* also when the first submission carried one.                             *)
(***************************************************************************)
\* the digits the pattern extracts from the first output, None without match
C22_Extracted(r) ==
  LET out == C3_FirstMod(r).oc.out
      hits == {i \in 1..Len(out) : MatchesAt(out, i)}
  IN IF hits = {} THEN None ELSE GroupAt(out, First(hits))

\* the sequence the first re-query that yields one gave, None when none did
C22_Requeried(r) ==
  LET yields == {i \in Pos(r, "account") :
                   i > First(Pos(r, "mod-provider")) /\ trace[r][i].seq # NoSeq}
  IN IF yields = {} THEN None ELSE trace[r][First(yields)].seq[2]

\* C22: the sequence of the resubmission is the extracted one, else the
\* re-queried one, else absent; it does not depend on the first command's
C22_ResubmissionSequenceIsFresh ==
  \A r \in Reqs :
    Cardinality(Pos(r, "mod-provider")) = 2 =>
      LET resubmission == trace[r][Last(Pos(r, "mod-provider"))]
          extracted == C22_Extracted(r)
          requeried == C22_Requeried(r)
      IN /\ SeqOf(resubmission.cmd) =
              IF extracted # None THEN extracted ELSE requeried
         /\ (extracted = None /\ requeried = None) =>
              /\ Index(resubmission.cmd, S("--sequence")) = 0
              /\ Cardinality({i \in Pos(r, "account") : i > First(Pos(r, "mod-provider"))}) = 2
         /\ extracted # None =>
              {i \in Pos(r, "account") : i > First(Pos(r, "mod-provider"))} = {}

\* C22 witness: the first submission carried sequence 42, nothing could be
\* extracted, both re-queries failed, and the resubmission carries none
C22_Witness ==
  \E r \in Reqs :
    /\ Cardinality(Pos(r, "mod-provider")) = 2
    /\ SeqOf(C3_FirstMod(r).cmd) = <<"4", "2">>
    /\ C22_Extracted(r) = None
    /\ C22_Requeried(r) = None
    /\ SeqOf(trace[r][Last(Pos(r, "mod-provider"))].cmd) = None

(***************************************************************************)
(* C23: within one request the registration lookup, the bond submission,   *)
(* every account query and both mod-provider submissions name the same     *)
(* encoded key; the lookup, the bond and the mod-provider submissions name *)
(* the same resolved service; and the resubmission's command is the first  *)
(* mod-provider command but for its --sequence argument.                   *)
(***************************************************************************)
\* a command line without its --sequence argument
C23_WithoutSequence(cmd) ==
  LET at == Index(cmd, S("--sequence"))
  IN IF at = 0 THEN cmd ELSE SubSeq(cmd, 1, at - 1) \o SubSeq(cmd, at + 2, Len(cmd))

\* the encoded key the request obtained from the encoding step
C23_Encoded(r) == ParseBech32(trace[r][First(Pos(r, "pubkey-raw"))].oc.out)

\* C23: one encoded key in the lookup, bond, account and mod-provider
\* commands, one service in the lookup, bond and mod-provider commands, and
\* two mod-provider commands equal up to --sequence
C23_SameIdentityAndService ==
  \A r \in Reqs :
    LET keyed == Pos(r, "provider") \cup Pos(r, "bond-provider")
                   \cup Pos(r, "account") \cup Pos(r, "mod-provider")
        named == Pos(r, "provider") \cup Pos(r, "bond-provider") \cup Pos(r, "mod-provider")
        mods == Pos(r, "mod-provider")
    IN /\ \A i \in keyed :
            /\ trace[r][i].cmd[7] = C23_Encoded(r)
            /\ trace[r][i].cmd[7] # <<>>
       /\ \A i, j \in named : trace[r][i].cmd[8] = trace[r][j].cmd[8]
       /\ \A i \in named : trace[r][i].cmd[8] = local[r].resolved_service
       /\ \A i, j \in mods :
            C23_WithoutSequence(trace[r][i].cmd) = C23_WithoutSequence(trace[r][j].cmd)
       /\ \A i \in mods :
            /\ Len(C23_WithoutSequence(trace[r][i].cmd)) = Len(mod_cmd_base(local[r]))
            /\ Len(trace[r][i].cmd) \in {Len(mod_cmd_base(local[r])), Len(mod_cmd_base(local[r])) + 2}

\* C23 witness: lookup, bond, account queries before and during recovery
\* and two mod-provider commands with different sequences, for a service
\* the catalog resolved
C23_Witness ==
  \E r \in Reqs :
    /\ Pos(r, "bond-provider") # {}
    /\ Cardinality(Pos(r, "mod-provider")) = 2
    /\ \E i \in Pos(r, "account") : i > First(Pos(r, "mod-provider"))
    /\ trace[r][First(Pos(r, "mod-provider"))].cmd # trace[r][Last(Pos(r, "mod-provider"))].cmd
    /\ trace[r][Last(Pos(r, "mod-provider"))].cmd[8] = <<"svc">>
    /\ trace[r][First(Pos(r, "account"))].cmd[7] = <<"addr1">>

====
